---- MODULE Spec2Model ----
(***************************************************************************)
(* Leaf-and-spine fabric of extras/leafandspine.py: the topology built by  *)
(* LeafAndSpine, the requests configMulticast and configUnicast send to    *)
(* the switches, the snapshot dumpTopology writes and the steps of config. *)
(* Frames are forwarded by the switches according to the installed rules.  *)
(***************************************************************************)
EXTENDS Integers, Sequences, FiniteSets, TLC

\* Bounds of the model: the sizing parameters are drawn from 0..Max*.
MaxSpine == 2
MaxLeaf == 2
MaxFanout == 2
\* Cap on the number of switch forwarding events of one frame.
MaxHops == 6

VARIABLES
    spine, leaf, fanout,   \* opts.spine, opts.leaf, opts.fanout
    phase,                 \* "new", "built", "started", "cli", "stopped"
    topo,                  \* the Topo: switches, hosts, links
    down,                  \* the switches that refuse every request
    ret,                   \* operation -> how its last call ended
    hostMAC,               \* host name -> MAC set by host.setMAC, or AutoMAC
    flows,                 \* rules installed on the switches, in table order
    noflood,               \* {<<switch, port>>} marked noflood
    emitted,               \* [mc, uc]: the requests its last run issued
    runs,                  \* [mc, uc]: "never", "once" or "again"
    snapshot,              \* what dumpTopology wrote, or NoSnapshot
    frame,                 \* the frame under observation, or NoFrame
    inflight,              \* {[sw, inport]}: copies waiting at a switch port
    delivered,             \* host name -> copies received (capped at 2)
    trace                  \* forwarding events of the frame: [sw, inport, out]

vars == <<spine, leaf, fanout, phase, topo, down, ret, hostMAC, flows, noflood,
          emitted, runs, snapshot, frame, inflight, delivered, trace>>

----------------------------------------------------------------------------
\* Names and addresses

SwitchName(n) == "s" \o ToString(n)

HostName(n) == "h" \o ToString(n)

\* 's%s' % (s + 1)
SpineName(s) == SwitchName(s + 1)

\* the leaf named without the spine offset
LeafNameNoOffset(sp, ls) == SwitchName(ls + 1)

\* 's%s' % (spine+ls+1)
LeafName(sp, ls) == SwitchName(sp + ls + 1)

\* 'h%s' % (ls*fanout+f+1)
HostOf(fo, ls, f) == HostName(ls * fo + f + 1)

\* ip='10.0.%s.%s/16' % (ls, (f+1))
HostIP(ls, f) == [addr |-> <<10, 0, ls, f + 1>>, mask |-> 16]

\* '00:04:00:00:{:02x}:{:02x}'.format(ls, (f+1)), as its six octets
MacOf(ls, f) == <<0, 4, 0, 0, ls, f + 1>>

AutoMAC == <<>>

Broadcast == <<255, 255, 255, 255, 255, 255>>

\* a group address, 01:00:5e:00:00:01
Multicast == <<1, 0, 94, 0, 0, 1>>

\* leaf and fanout must be < 255
OctetLimit == 255

\* the sizing parameters the fabric is meant for
Valid(sp, lf, fo) ==
    sp >= 1 /\ lf >= 1 /\ fo >= 1 /\ lf < OctetLimit /\ fo < OctetLimit

\* the bit dl_dst=01:00:00:00:00:00/01:00:00:00:00:00 tests
IsMulticast(mac) == Len(mac) = 6 /\ mac[1] % 2 = 1

----------------------------------------------------------------------------
\* Topo: addSwitch, addHost, addLink

EmptyTopo == [switches |-> <<>>, hosts |-> <<>>, links |-> <<>>]

SeqRange(s) == {s[i] : i \in 1..Len(s)}

SwitchNames(t) == SeqRange(t.switches)

HostNames(t) == {h.name : h \in SeqRange(t.hosts)}

\* nodes are keyed by name: adding a name again keeps one node
AddSwitch(t, name) ==
    IF name \in SwitchNames(t) THEN t
    ELSE [t EXCEPT !.switches = Append(@, name)]

AddHost(t, name, ip) ==
    IF name \in HostNames(t) THEN t
    ELSE [t EXCEPT !.hosts = Append(@, [name |-> name, ip |-> ip])]

\* ports of a node already used by links
PortsOf(t, n) ==
    {l.p1 : l \in {x \in SeqRange(t.links) : x.n1 = n}} \cup
    {l.p2 : l \in {x \in SeqRange(t.links) : x.n2 = n}}

\* the next free port: switches number from 1, hosts from 0
NextPort(t, n) ==
    Cardinality(PortsOf(t, n)) + (IF n \in SwitchNames(t) THEN 1 ELSE 0)

AddLink(t, a, b) ==
    [t EXCEPT !.links = Append(@, [n1 |-> a, p1 |-> NextPort(t, a),
                                   n2 |-> b, p2 |-> NextPort(t, b)])]

\* for s in range(spine): spines[s] = self.addSwitch(...)
RECURSIVE AddSpines(_, _, _)
AddSpines(t, s, sp) ==
    IF s >= sp THEN t
    ELSE AddSpines(AddSwitch(t, SpineName(s)), s + 1, sp)

\* for s in range(spine): self.addLink(leafSwitch, spines[s])
RECURSIVE AddUplinks(_, _, _, _)
AddUplinks(t, leafSwitch, s, sp) ==
    IF s >= sp THEN t
    ELSE AddUplinks(AddLink(t, leafSwitch, SpineName(s)), leafSwitch, s + 1, sp)

\* for f in range(fanout): addHost, addLink(host, leafSwitch)
RECURSIVE AddHosts(_, _, _, _, _)
AddHosts(t, leafSwitch, ls, f, fo) ==
    IF f >= fo THEN t
    ELSE AddHosts(AddLink(AddHost(t, HostOf(fo, ls, f), HostIP(ls, f)),
                          HostOf(fo, ls, f), leafSwitch),
                  leafSwitch, ls, f + 1, fo)

\* for ls in range(leaf): leaf switch, its uplinks, its hosts
RECURSIVE AddLeaves(_, _, _, _, _)
AddLeaves(t, ls, sp, lf, fo) ==
    IF ls >= lf THEN t
    ELSE AddLeaves(
            AddHosts(AddUplinks(AddSwitch(t, LeafName(sp, ls)),
                                LeafName(sp, ls), 0, sp),
                     LeafName(sp, ls), ls, 0, fo),
            ls + 1, sp, lf, fo)

\* LeafAndSpine.__init__
BuildTopo(sp, lf, fo) == AddLeaves(AddSpines(EmptyTopo, 0, sp), 0, sp, lf, fo)

\* the node and port at the other end of port p of node n, or NoPeer
NoPeer == [node |-> "", port |-> -1]

LinksAt(t, n, p) ==
    {l \in SeqRange(t.links) : (l.n1 = n /\ l.p1 = p) \/ (l.n2 = n /\ l.p2 = p)}

Peer(t, n, p) ==
    IF LinksAt(t, n, p) = {} THEN NoPeer
    ELSE LET l == CHOOSE x \in LinksAt(t, n, p) : TRUE
         IN  IF l.n1 = n /\ l.p1 = p THEN [node |-> l.n2, port |-> l.p2]
             ELSE [node |-> l.n1, port |-> l.p1]

----------------------------------------------------------------------------
\* Requests to the switches: ovs-ofctl mod-port and ovs-ofctl add-flow

NoRule == [match |-> [kind |-> "", mac |-> <<>>], prio |-> 0,
           act |-> [kind |-> "", port |-> 0, basis |-> 0, slaves |-> <<>>]]

\* call(['ovs-ofctl', 'mod-port', switch, str(p), 'noflood'])
ModPort(switch, p) ==
    [op |-> "mod-port", sw |-> switch, port |-> p, attr |-> "noflood",
     rule |-> NoRule]

AddFlowReq(switch, rule) ==
    [op |-> "add-flow", sw |-> switch, port |-> 0, attr |-> "", rule |-> rule]

\* 'dl_dst=01:00:00:00:00:00/01:00:00:00:00:00 priority=400 actions=flood'
FloodRule ==
    [match |-> [kind |-> "mcast", mac |-> <<>>], prio |-> 400,
     act |-> [kind |-> "flood", port |-> 0, basis |-> 0, slaves |-> <<>>]]

\* 'dl_dst=%s priority=500 actions=output:%s' % (mac, port)
HostRule(mac, port) ==
    [match |-> [kind |-> "dst", mac |-> mac], prio |-> 500,
     act |-> [kind |-> "output", port |-> port, basis |-> 0, slaves |-> <<>>]]

\* slaves = '1'; if (spine > 1): for x in range(2,spine+1): slaves=slaves+','+str(x)
RECURSIVE SlavesFrom(_, _)
SlavesFrom(x, sp) == IF x > sp THEN <<>> ELSE <<x>> \o SlavesFrom(x + 1, sp)

Slaves(sp) == <<1>> \o (IF sp > 1 THEN SlavesFrom(2, sp) ELSE <<>>)

\* 'priority=300 actions=bundle(symmetric_l4,%s,hrw,ofport,slaves:%s' % (ls+1, slaves)
BundleRule(ls, sp) ==
    [match |-> [kind |-> "any", mac |-> <<>>], prio |-> 300,
     act |-> [kind |-> "bundle", port |-> 0, basis |-> ls + 1,
              slaves |-> Slaves(sp)]]

\* for p in range(2, spine+1): mod-port switch p noflood
RECURSIVE NofloodReqs(_, _, _)
NofloodReqs(switch, p, sp) ==
    IF p > sp THEN <<>>
    ELSE <<ModPort(switch, p)>> \o NofloodReqs(switch, p + 1, sp)

\* the leaf's requests with no uplink marked noflood
McLeafReqsNoPin(switch, sp) == <<AddFlowReq(switch, FloodRule)>>

\* the requests of configMulticast for one leaf switch
McLeafReqs(switch, sp) ==
    NofloodReqs(switch, 2, sp) \o <<AddFlowReq(switch, FloodRule)>>

RECURSIVE McLeafLoop(_, _, _)
McLeafLoop(ls, sp, lf) ==
    IF ls >= lf THEN <<>>
    ELSE McLeafReqs(LeafName(sp, ls), sp) \o McLeafLoop(ls + 1, sp, lf)

RECURSIVE McSpineLoop(_, _)
McSpineLoop(s, sp) ==
    IF s >= sp THEN <<>>
    ELSE <<AddFlowReq(SpineName(s), FloodRule)>> \o McSpineLoop(s + 1, sp)

\* configMulticast(spine, leaf, fanout): the requests it issues, in order
McRequests(sp, lf, fo) == McLeafLoop(0, sp, lf) \o McSpineLoop(0, sp)

\* the spine rules with the spine's index as the output port
RECURSIVE UcSpineLoopOwnIndex(_, _, _, _)
UcSpineLoopOwnIndex(s, sp, mac, ls) ==
    IF s >= sp THEN <<>>
    ELSE <<AddFlowReq(SpineName(s), HostRule(mac, s + 1))>>
         \o UcSpineLoopOwnIndex(s + 1, sp, mac, ls)

\* for s in range(spine): add-flow sname dl_dst=mac priority=500 output:ls+1
RECURSIVE UcSpineLoop(_, _, _, _)
UcSpineLoop(s, sp, mac, ls) ==
    IF s >= sp THEN <<>>
    ELSE <<AddFlowReq(SpineName(s), HostRule(mac, ls + 1))>>
         \o UcSpineLoop(s + 1, sp, mac, ls)

\* the body of the loop over the hosts of one leaf
UcHostReqs(ls, f, sp) ==
    <<AddFlowReq(LeafName(sp, ls), HostRule(MacOf(ls, f), f + 1 + sp)),
      AddFlowReq(LeafName(sp, ls), BundleRule(ls, sp))>>
    \o UcSpineLoop(0, sp, MacOf(ls, f), ls)

RECURSIVE UcHostLoop(_, _, _, _)
UcHostLoop(ls, f, sp, fo) ==
    IF f >= fo THEN <<>>
    ELSE UcHostReqs(ls, f, sp) \o UcHostLoop(ls, f + 1, sp, fo)

RECURSIVE UcLeafLoop(_, _, _, _)
UcLeafLoop(ls, sp, lf, fo) ==
    IF ls >= lf THEN <<>>
    ELSE UcHostLoop(ls, 0, sp, fo) \o UcLeafLoop(ls + 1, sp, lf, fo)

\* configUnicast(net, spine, leaf, fanout): the requests it issues, in order
UcRequests(sp, lf, fo) == UcLeafLoop(0, sp, lf, fo)

\* host.setMAC(mac) for every (ls, f) of the loops
SetMACs(macs, sp, lf, fo) ==
    [h \in DOMAIN macs |->
        IF \E ls \in 0..(lf - 1), f \in 0..(fo - 1) : h = HostOf(fo, ls, f)
        THEN LET c == CHOOSE c \in (0..(lf - 1)) \X (0..(fo - 1)) :
                          h = HostOf(fo, c[1], c[2])
             IN  MacOf(c[1], c[2])
        ELSE macs[h]]

----------------------------------------------------------------------------
\* The switches' side of a request

SameIdentity(a, b) == a.sw = b.sw /\ a.match = b.match /\ a.prio = b.prio

\* add-flow that keeps the installed rule and adds another
AddFlowAppend(fl, e) == Append(fl, e)

\* add-flow: a rule with the match and priority of an installed one replaces it
AddFlow(fl, e) ==
    IF \E i \in 1..Len(fl) : SameIdentity(fl[i], e)
    THEN [i \in 1..Len(fl) |-> IF SameIdentity(fl[i], e) THEN e ELSE fl[i]]
    ELSE Append(fl, e)

\* a request fails when its switch is failing or is no switch of the network
Fails(t, r, bad) == r.sw \in bad \/ r.sw \notin SwitchNames(t)

\* call(): the request is issued; its exit status is dropped
Call(st, t, r, bad) ==
    IF Fails(t, r, bad) THEN st
    ELSE IF r.op = "mod-port"
         THEN [st EXCEPT !.noflood = @ \cup {<<r.sw, r.port>>}]
         ELSE [st EXCEPT !.flows =
                  AddFlow(@, [sw |-> r.sw, match |-> r.rule.match,
                              prio |-> r.rule.prio, act |-> r.rule.act])]

RECURSIVE CallAll(_, _, _, _, _)
CallAll(st, t, reqs, i, bad) ==
    IF i > Len(reqs) THEN st
    ELSE CallAll(Call(st, t, reqs[i], bad), t, reqs, i + 1, bad)

NoneFailed(t, reqs, bad) == \A i \in 1..Len(reqs) : ~Fails(t, reqs[i], bad)

\* which switches may refuse requests: none, or one of those addressed
FailureSets(sp, lf) == {{}} \cup {{SwitchName(n)} : n \in 1..(sp + lf)}

----------------------------------------------------------------------------
\* Forwarding by a switch: the highest-priority rule matching the frame acts

Matches(m, dst) ==
    \/ m.kind = "any"
    \/ m.kind = "mcast" /\ IsMulticast(dst)
    \/ m.kind = "dst" /\ m.mac = dst

Matching(fl, switch, dst) ==
    {r \in SeqRange(fl) : r.sw = switch /\ Matches(r.match, dst)}

Best(fl, switch, dst) ==
    {r \in Matching(fl, switch, dst) :
        \A q \in Matching(fl, switch, dst) : q.prio <= r.prio}

\* flood: every port except the ingress port and the ports marked noflood
FloodPorts(t, nf, switch, inport) ==
    {p \in PortsOf(t, switch) : p # inport /\ <<switch, p>> \notin nf}

\* the sets of ports a rule may output the frame on; an output to the
\* ingress port is not made, and a bundle outputs on one of its members:
\* which one depends on the hash of the frame's addresses and ports, so for
\* a frame of any flow it may be any of them
OutChoices(t, nf, r, inport) ==
    CASE r.act.kind = "flood" -> {FloodPorts(t, nf, r.sw, inport)}
      [] r.act.kind = "output" -> {{r.act.port} \ {inport}}
      [] r.act.kind = "bundle" ->
            {{r.act.slaves[i]} \ {inport} : i \in 1..Len(r.act.slaves)}
      [] OTHER -> {{}}

\* what a switch may do with a copy: no rule matches, the copy is dropped
Outputs(t, fl, nf, switch, inport, dst) ==
    IF Best(fl, switch, dst) = {} THEN {{}}
    ELSE UNION {OutChoices(t, nf, r, inport) : r \in Best(fl, switch, dst)}

----------------------------------------------------------------------------
\* The member a bundle(symmetric_l4,basis,hrw,ofport,slaves:...) action picks.
\* The switch's hash functions are modelled at 16 bits: the frame's fields
\* are combined so that the two directions of a flow agree, then mixed with
\* the basis; hrw picks the member whose own hash with that value is highest.

HashSpace == 2 ^ 16

Mix(x, y) ==
    (((((x % HashSpace) * 251) + (y % HashSpace)) % HashSpace) * 25173 + 13849)
        % HashSpace

RECURSIVE Xor(_, _)
Xor(a, b) ==
    IF a = 0 THEN b
    ELSE IF b = 0 THEN a
    ELSE ((a + b) % 2) + 2 * Xor(a \div 2, b \div 2)

IpNum(ip) ==
    ((ip.addr[1] * 256 + ip.addr[2]) * 256 + ip.addr[3]) * 256 + ip.addr[4]

\* symmetric_l4: the addresses, the protocol and, for TCP, the ports
SymmetricL4(fl, basis) ==
    Mix(Mix(Mix(basis, Xor(IpNum(fl.src), IpNum(fl.dst))),
            IF fl.proto = "tcp" THEN 6 ELSE 17),
        IF fl.proto = "tcp" THEN Xor(fl.sport, fl.dport) ELSE 0)

\* hrw: the first member of the highest weight
Hrw(h, slaves) ==
    slaves[CHOOSE i \in 1..Len(slaves) :
              /\ \A j \in 1..Len(slaves) : Mix(j, h) <= Mix(i, h)
              /\ \A j \in 1..(i - 1) : Mix(j, h) < Mix(i, h)]

BundleSelect(act, fl) == Hrw(SymmetricL4(fl, act.basis), act.slaves)

\* the flows sampled between two hosts: one of UDP, and TCP between the ports
TcpPorts == {80, 1024, 5001}

FlowsBetween(a, b) ==
    {[src |-> a, dst |-> b, proto |-> "udp", sport |-> 0, dport |-> 0]}
    \cup {[src |-> a, dst |-> b, proto |-> "tcp", sport |-> p, dport |-> q] :
             p \in TcpPorts, q \in TcpPorts}

\* the same flow in the other direction
Reverse(fl) ==
    [src |-> fl.dst, dst |-> fl.src, proto |-> fl.proto,
     sport |-> fl.dport, dport |-> fl.sport]

----------------------------------------------------------------------------
\* dumpTopology

\* '%s-eth%s': the name of the interface of port p of node n
IntfName(n, p) == n \o "-eth" \o ToString(p)

\* the interfaces under /sys/devices/virtual/net/ whose names match
\* '(^s[0-9]+)-(.*)', each with the switch name the pattern extracts
SwitchIntfs(t) ==
    {[node |-> l.n1, port |-> l.p1] :
        l \in {x \in SeqRange(t.links) : x.n1 \in SwitchNames(t)}}
    \cup {[node |-> l.n2, port |-> l.p2] :
             l \in {x \in SeqRange(t.links) : x.n2 \in SwitchNames(t)}}

\* the interface index the system gave to an interface
IfIndex(t, i) ==
    CHOOSE k \in 1..(2 * Len(t.links)) :
        \/ k % 2 = 1 /\ t.links[(k + 1) \div 2].n1 = i.node
                     /\ t.links[(k + 1) \div 2].p1 = i.port
        \/ k % 2 = 0 /\ t.links[k \div 2].n2 = i.node
                     /\ t.links[k \div 2].p2 = i.port

\* the digits of a switch name 's<n>'
Dpid(t, name) ==
    CHOOSE i \in 1..(Len(t.switches) + Len(t.links)) : name = SwitchName(i)

\* topoData['nodes'][s.name] and its ports
NodeRecord(t, s, agent) ==
    [name |-> s, dpid |-> Dpid(t, s), agent |-> agent,
     ports |-> {[name |-> IntfName(i.node, i.port), ifindex |-> IfIndex(t, i)] :
                   i \in {x \in SwitchIntfs(t) : x.node = s}},
     tag |-> "none"]

\* a.connectionsTo(b): the pairs (port of a, port of b) linked together
ConnectionsTo(t, a, b) ==
    {<<l.p1, l.p2>> : l \in {x \in SeqRange(t.links) : x.n1 = a /\ x.n2 = b}}
    \cup {<<l.p2, l.p1>> : l \in {x \in SeqRange(t.links) : x.n1 = b /\ x.n2 = a}}

LinkName(a, b) == a \o "-" \o b

LinkRecord(t, a, b, c) ==
    [node1 |-> a, port1 |-> IntfName(a, c[1]),
     ifindex1 |-> IfIndex(t, [node |-> a, port |-> c[1]]),
     node2 |-> b, port2 |-> IntfName(b, c[2]),
     ifindex2 |-> IfIndex(t, [node |-> b, port |-> c[2]])]

\* for s1, s2 in net.switches with j > i: one record per connection, keyed
\* by the link name (a later record of the same name replaces an earlier)
DumpLinks(t) ==
    LET pairs == {<<i, j>> \in (1..Len(t.switches)) \X (1..Len(t.switches)) :
                     j > i /\ ConnectionsTo(t, t.switches[i], t.switches[j]) # {}}
        names == {LinkName(t.switches[q[1]], t.switches[q[2]]) : q \in pairs}
    IN  [n \in names |->
            LET q == CHOOSE q \in pairs :
                        n = LinkName(t.switches[q[1]], t.switches[q[2]])
                c == CHOOSE c \in ConnectionsTo(t, t.switches[q[1]],
                                                t.switches[q[2]]) : TRUE
            IN  LinkRecord(t, t.switches[q[1]], t.switches[q[2]], c)]

\* the tag given without the test of the connections
IsEdgeUntested(t, s) == HostNames(t) # {}

\* for h in net.hosts: for s in net.switches: if h.connectionsTo(s): tag
IsEdge(t, s) == \E h \in HostNames(t) : ConnectionsTo(t, h, s) # {}

DumpNodes(t, agent) ==
    [s \in SwitchNames(t) |->
        IF IsEdge(t, s) THEN [NodeRecord(t, s, agent) EXCEPT !.tag = "edge"]
        ELSE NodeRecord(t, s, agent)]

TopoData(t, agent) == [nodes |-> DumpNodes(t, agent), links |-> DumpLinks(t)]

----------------------------------------------------------------------------
NoFrame == [src |-> "", dst |-> <<>>]

NoSnapshot == [nodes |-> <<>>, links |-> <<>>]

Operations == {"LeafAndSpine", "configMulticast", "configUnicast", "dumpTopology"}

\* how a call ended: what it returned, and the error it raised if any
NotCalled == [raised |-> "", value |-> ""]

Returned(v) == [raised |-> "none", value |-> v]

\* a synthesizer has run never, once, or again after that
RunAgain(r) == IF r = "never" THEN "once" ELSE "again"

Init ==
    /\ spine \in 0..MaxSpine
    /\ leaf \in 0..MaxLeaf
    /\ fanout \in 0..MaxFanout
    /\ phase = "new"
    /\ topo = EmptyTopo
    /\ down \in FailureSets(spine, leaf)
    /\ ret = [op \in Operations |-> NotCalled]
    /\ hostMAC = <<>>
    /\ flows = <<>>
    /\ noflood = {}
    /\ emitted = [mc |-> <<>>, uc |-> <<>>]
    /\ runs = [mc |-> "never", uc |-> "never"]
    /\ snapshot = NoSnapshot
    /\ frame = NoFrame
    /\ inflight = {}
    /\ delivered = <<>>
    /\ trace = <<>>

\* topo = LeafAndSpine(spine=spine, leaf=leaf, fanout=fanout)
LeafAndSpineInit ==
    /\ phase = "new"
    /\ phase' = "built"
    /\ topo' = BuildTopo(spine, leaf, fanout)
    /\ ret' = [ret EXCEPT !["LeafAndSpine"] = Returned("topo")]
    /\ hostMAC' = [h \in HostNames(topo') |-> AutoMAC]
    /\ delivered' = [h \in HostNames(topo') |-> 0]
    /\ UNCHANGED <<spine, leaf, fanout, down, flows, noflood, emitted, runs,
                   snapshot, frame, inflight, trace>>

\* net.start()
NetStart ==
    /\ phase = "built"
    /\ phase' = "started"
    /\ UNCHANGED <<spine, leaf, fanout, topo, down, ret, hostMAC, flows,
                   noflood, emitted, runs, snapshot, frame, inflight,
                   delivered, trace>>

ClearTraffic ==
    /\ frame' = NoFrame
    /\ inflight' = {}
    /\ delivered' = [h \in DOMAIN delivered |-> 0]
    /\ trace' = <<>>

\* configMulticast(spine=spine, leaf=leaf, fanout=fanout)
ConfigMulticast ==
    /\ phase = "started"
    /\ inflight = {}
    /\ LET reqs == McRequests(spine, leaf, fanout)
           st == CallAll([flows |-> flows, noflood |-> noflood], topo,
                         reqs, 1, down)
       IN  /\ flows' = st.flows
           /\ noflood' = st.noflood
           /\ emitted' = [emitted EXCEPT !.mc = reqs]
           /\ runs' = [runs EXCEPT !.mc = RunAgain(@)]
    /\ ret' = [ret EXCEPT !["configMulticast"] = Returned("None")]
    /\ ClearTraffic
    /\ UNCHANGED <<spine, leaf, fanout, phase, topo, down, hostMAC,
                   snapshot>>

\* configUnicast(net=net, spine=spine, leaf=leaf, fanout=fanout)
ConfigUnicast ==
    /\ phase = "started"
    /\ inflight = {}
    /\ LET reqs == UcRequests(spine, leaf, fanout)
           st == CallAll([flows |-> flows, noflood |-> noflood], topo,
                         reqs, 1, down)
       IN  /\ flows' = st.flows
           /\ noflood' = st.noflood
           /\ emitted' = [emitted EXCEPT !.uc = reqs]
           /\ runs' = [runs EXCEPT !.uc = RunAgain(@)]
    /\ hostMAC' = SetMACs(hostMAC, spine, leaf, fanout)
    /\ ret' = [ret EXCEPT !["configUnicast"] = Returned("None")]
    /\ ClearTraffic
    /\ UNCHANGED <<spine, leaf, fanout, phase, topo, down, snapshot>>

\* dumpTopology(net=net, agent=agent, topofile=opts.topofile)
DumpTopology ==
    /\ phase = "started"
    /\ snapshot = NoSnapshot
    /\ snapshot' = TopoData(topo, "agent")
    /\ ret' = [ret EXCEPT !["dumpTopology"] = Returned("None")]
    /\ UNCHANGED <<spine, leaf, fanout, phase, topo, down, hostMAC, flows,
                   noflood, emitted, runs, frame, inflight, delivered,
                   trace>>

\* a host sends a frame: a broadcast, a multicast, or a unicast to another
\* host's MAC; one frame is followed at a time, and a later run of a
\* synthesizer clears the record for the next
SendFrame ==
    /\ phase = "started"
    /\ frame = NoFrame
    /\ \E h \in HostNames(topo) :
         \E dst \in {Broadcast, Multicast} \cup
                    {hostMAC[g] : g \in {x \in HostNames(topo) :
                                            x # h /\ hostMAC[x] # AutoMAC}} :
            /\ frame' = [src |-> h, dst |-> dst]
            /\ inflight' = {[sw |-> Peer(topo, h, 0).node,
                             inport |-> Peer(topo, h, 0).port]}
    /\ delivered' = [h \in DOMAIN delivered |-> 0]
    /\ trace' = <<>>
    /\ UNCHANGED <<spine, leaf, fanout, phase, topo, down, ret, hostMAC,
                   flows, noflood, emitted, runs, snapshot>>

\* a switch forwards one waiting copy of the frame
Forward ==
    /\ Len(trace) < MaxHops
    /\ \E c \in inflight :
         \E out \in Outputs(topo, flows, noflood, c.sw, c.inport, frame.dst) :
            LET peers == {Peer(topo, c.sw, p) : p \in out}
            IN  /\ inflight' = (inflight \ {c}) \cup
                        {[sw |-> q.node, inport |-> q.port] :
                            q \in {x \in peers : x.node \in SwitchNames(topo)}}
                /\ delivered' = [h \in DOMAIN delivered |->
                        IF \E q \in peers : q.node = h
                        THEN IF delivered[h] < 2 THEN delivered[h] + 1 ELSE 2
                        ELSE delivered[h]]
                /\ trace' = Append(trace, [sw |-> c.sw, inport |-> c.inport,
                                           out |-> out])
    /\ UNCHANGED <<spine, leaf, fanout, phase, topo, down, ret, hostMAC,
                   flows, noflood, emitted, runs, snapshot, frame>>

\* CLI(net)
EnterCLI ==
    /\ phase = "started"
    /\ phase' = "cli"
    /\ UNCHANGED <<spine, leaf, fanout, topo, down, ret, hostMAC, flows,
                   noflood, emitted, runs, snapshot, frame, inflight,
                   delivered, trace>>

\* net.stop()
NetStop ==
    /\ phase = "cli"
    /\ phase' = "stopped"
    /\ UNCHANGED <<spine, leaf, fanout, topo, down, ret, hostMAC, flows,
                   noflood, emitted, runs, snapshot, frame, inflight,
                   delivered, trace>>

\* the operations of the module, called on a started network whose
\* switches may refuse requests
Next ==
    \/ LeafAndSpineInit
    \/ NetStart
    \/ ConfigMulticast
    \/ ConfigUnicast
    \/ DumpTopology

Spec == Init /\ [][Next]_vars

\* frames sent by the hosts of a network whose switches accept every request
TrafficInit == Init /\ down = {}

TrafficNext ==
    \/ LeafAndSpineInit
    \/ NetStart
    \/ ConfigMulticast
    \/ ConfigUnicast
    \/ SendFrame
    \/ Forward

TrafficSpec == TrafficInit /\ [][TrafficNext]_vars

\* config(opts) as written: build, start, CLI, stop
ConfigNext ==
    \/ LeafAndSpineInit
    \/ NetStart
    \/ EnterCLI
    \/ NetStop

ConfigSpec == Init /\ [][ConfigNext]_vars
----------------------------------------------------------------------------
\* Properties

Spines == {SpineName(s) : s \in 0..(spine - 1)}

Leaves == {LeafName(spine, ls) : ls \in 0..(leaf - 1)}

Built == phase # "new"

ValidFabric == Built /\ Valid(spine, leaf, fanout)

NoDuplicateRules(fl) ==
    \A i, j \in 1..Len(fl) : SameIdentity(fl[i], fl[j]) => i = j

InstalledOn(fl, switch) == {r \in SeqRange(fl) : r.sw = switch}

\* C7: the fabric built for valid sizing parameters has spine + leaf switches
\* and leaf * fanout hosts of pairwise distinct names; every leaf has its
\* uplinks on ports 1..spine, port s+1 to spine s, and its hosts on ports
\* spine+1..spine+fanout; every link joins a leaf to a spine or a host to a
\* leaf.
C7_FabricShape ==
    ValidFabric =>
        /\ SwitchNames(topo) = Spines \cup Leaves
        /\ Len(topo.switches) = spine + leaf
        /\ Cardinality(Spines \cup Leaves) = spine + leaf
        /\ Len(topo.hosts) = leaf * fanout
        /\ Cardinality(HostNames(topo)) = leaf * fanout
        /\ \A ls \in 0..(leaf - 1) :
              /\ PortsOf(topo, LeafName(spine, ls)) = 1..(spine + fanout)
              /\ \A p \in 1..(spine + fanout) :
                    Cardinality(LinksAt(topo, LeafName(spine, ls), p)) = 1
              /\ \A s \in 0..(spine - 1) :
                    Peer(topo, LeafName(spine, ls), s + 1).node = SpineName(s)
              /\ \A f \in 0..(fanout - 1) :
                    Peer(topo, LeafName(spine, ls), spine + f + 1) =
                        [node |-> HostOf(fanout, ls, f), port |-> 0]
        /\ \A l \in SeqRange(topo.links) :
              \/ l.n1 \in Leaves /\ l.n2 \in Spines
              \/ l.n1 \in HostNames(topo) /\ l.n2 \in Leaves

C7_Witness ==
    /\ ValidFabric
    /\ spine >= 2 /\ leaf >= 2 /\ fanout >= 2
    /\ Len(topo.links) = leaf * (spine + fanout)

\* C9: the snapshot of a fabric built for valid sizing parameters has one
\* node record per switch, one link record per linked pair of switches, each
\* naming a spine and a leaf that are linked, and the tag edge on exactly the
\* switches with an attached host: on every leaf and on no spine.
C9_Snapshot ==
    (ValidFabric /\ snapshot # NoSnapshot) =>
        /\ DOMAIN snapshot.nodes = SwitchNames(topo)
        /\ Cardinality(DOMAIN snapshot.nodes) = spine + leaf
        /\ Cardinality(DOMAIN snapshot.links) = spine * leaf
        /\ \A n \in DOMAIN snapshot.links :
              /\ snapshot.links[n].node1 \in Spines
              /\ snapshot.links[n].node2 \in Leaves
              /\ ConnectionsTo(topo, snapshot.links[n].node1,
                               snapshot.links[n].node2) # {}
        /\ \A a \in Spines, b \in Leaves :
              \E n \in DOMAIN snapshot.links :
                 snapshot.links[n].node1 = a /\ snapshot.links[n].node2 = b
        /\ \A s \in SwitchNames(topo) :
              /\ snapshot.nodes[s].name = s
              /\ snapshot.nodes[s].tag = "edge" <=>
                    \E p \in PortsOf(topo, s) :
                       Peer(topo, s, p).node \in HostNames(topo)
              /\ s \in Leaves => snapshot.nodes[s].tag = "edge"
              /\ s \in Spines => snapshot.nodes[s].tag = "none"

C9_Witness ==
    /\ ValidFabric
    /\ snapshot # NoSnapshot
    /\ spine >= 2 /\ leaf >= 2
    /\ \E s \in SwitchNames(topo) : snapshot.nodes[s].tag = "edge"
    /\ \E s \in SwitchNames(topo) : snapshot.nodes[s].tag = "none"

Quiet == frame # NoFrame /\ inflight = {}

\* a flooded frame is on its way through a fabric configured by a run of
\* configMulticast in which no request failed
FloodCase ==
    /\ ValidFabric
    /\ runs.mc # "never"
    /\ NoneFailed(topo, emitted.mc, down)
    /\ frame # NoFrame
    /\ IsMulticast(frame.dst)

\* C1: a broadcast or multicast frame sent by a host of a fabric configured
\* by configMulticast never comes back to its sender, reaches no host
\* twice, is handled at most once by each switch (so by at most leaf + 1
\* switches, below the cap on hops), and once no copy is left every other
\* host has received it exactly once.
C1_FloodOnce ==
    FloodCase =>
        /\ delivered[frame.src] = 0
        /\ \A h \in HostNames(topo) : delivered[h] <= 1
        /\ \A i, j \in 1..Len(trace) : trace[i].sw = trace[j].sw => i = j
        /\ Len(trace) <= leaf + 1
        /\ Len(trace) < MaxHops
        /\ Quiet => \A h \in HostNames(topo) \ {frame.src} : delivered[h] = 1

C1_Witness ==
    /\ FloodCase
    /\ Quiet
    /\ spine >= 2 /\ leaf >= 2 /\ fanout >= 2
    /\ Len(trace) = leaf + 1
    /\ \A h \in HostNames(topo) \ {frame.src} : delivered[h] = 1

\* a unicast frame is on its way through a fabric configured by a run of
\* configUnicast in which no request failed
UnicastCase ==
    /\ ValidFabric
    /\ runs.uc # "never"
    /\ NoneFailed(topo, emitted.uc, down)
    /\ frame # NoFrame
    /\ ~IsMulticast(frame.dst)

\* the event is the output on exactly port p
OutputOn(e, p) == e.out = {p}

\* C2: a unicast frame addressed to the MAC of host h = (ls, f) reaches no
\* other host and h at most once, and exactly once when no copy is left; h's
\* leaf outputs it on port spine + f + 1, where h is attached; the source
\* leaf, when h is not local, outputs it on one of the uplinks 1..spine; and
\* a spine outputs it on the port ls + 1, which is linked to h's leaf.
C2_UnicastDelivery ==
    UnicastCase =>
        \E ls \in 0..(leaf - 1), f \in 0..(fanout - 1) :
           /\ frame.dst = MacOf(ls, f)
           /\ hostMAC[HostOf(fanout, ls, f)] = frame.dst
           /\ Peer(topo, HostOf(fanout, ls, f), 0) =
                 [node |-> LeafName(spine, ls), port |-> spine + f + 1]
           /\ \A g \in HostNames(topo) \ {HostOf(fanout, ls, f)} :
                 delivered[g] = 0
           /\ delivered[HostOf(fanout, ls, f)] <= 1
           /\ Quiet => delivered[HostOf(fanout, ls, f)] = 1
           /\ Len(trace) <= 3
           /\ \A i \in 1..Len(trace) :
                 IF trace[i].sw = LeafName(spine, ls)
                 THEN OutputOn(trace[i], spine + f + 1)
                 ELSE IF trace[i].sw \in Leaves
                 THEN /\ trace[i].sw = Peer(topo, frame.src, 0).node
                      /\ \E u \in 1..spine : OutputOn(trace[i], u)
                 ELSE /\ trace[i].sw \in Spines
                      /\ OutputOn(trace[i], ls + 1)
                      /\ Peer(topo, trace[i].sw, ls + 1).node =
                            LeafName(spine, ls)

\* a frame to a host of another leaf has arrived over the last uplink
C2_Witness ==
    /\ UnicastCase
    /\ Quiet
    /\ spine >= 2 /\ leaf >= 2 /\ fanout >= 2
    /\ Len(trace) = 3
    /\ trace[1].out = {spine}
    /\ trace[2].sw = SpineName(spine - 1)
    /\ \E h \in HostNames(topo) : hostMAC[h] = frame.dst /\ delivered[h] = 1

\* a frame to a host of the sender's own leaf has arrived
C2_LocalWitness ==
    /\ UnicastCase
    /\ Quiet
    /\ Len(trace) = 1
    /\ \E h \in HostNames(topo) : hostMAC[h] = frame.dst /\ delivered[h] = 1
\* the multipath rules installed on a switch
BundlesOn(switch) ==
    {r \in InstalledOn(flows, switch) : r.act.kind = "bundle"}

\* C3: for hosts A and B on different leaves and every flow between them,
\* the uplink the multipath rule on A's leaf selects for the flow from A to
\* B is the uplink the multipath rule on B's leaf selects for the flow from
\* B to A.
C3_SymmetricSelection ==
    (ValidFabric /\ runs.uc # "never" /\ NoneFailed(topo, emitted.uc, down)) =>
        \A la, lb \in 0..(leaf - 1), fa, fb \in 0..(fanout - 1) :
           la # lb =>
              \A fl \in FlowsBetween(HostIP(la, fa), HostIP(lb, fb)) :
                 \A ra \in BundlesOn(LeafName(spine, la)),
                    rb \in BundlesOn(LeafName(spine, lb)) :
                       BundleSelect(ra.act, fl) = BundleSelect(rb.act, Reverse(fl))

\* the requests of the last configUnicast run for a switch, by priority
EmittedFor(switch, prio) ==
    {i \in 1..Len(emitted.uc) :
        /\ emitted.uc[i].sw = switch
        /\ emitted.uc[i].op = "add-flow"
        /\ emitted.uc[i].rule.prio = prio}

\* C4: one run of configUnicast emits for each leaf exactly fanout host
\* rules of priority 500 and exactly one multipath rule of priority 300,
\* whose members are the uplinks 1..spine.
C4_EmittedPerLeaf ==
    (ValidFabric /\ runs.uc # "never") =>
        \A ls \in 0..(leaf - 1) :
           /\ Cardinality(EmittedFor(LeafName(spine, ls), 500)) = fanout
           /\ Cardinality(EmittedFor(LeafName(spine, ls), 300)) = 1
           /\ \A i \in EmittedFor(LeafName(spine, ls), 300) :
                 SeqRange(emitted.uc[i].rule.act.slaves) = 1..spine

\* C5: with a sizing parameter out of range the construction ends in
\* InvalidTopologySize, no switch, host or link is created and no request
\* is issued.
C5_InvalidSizeRejected ==
    (Built /\ ~Valid(spine, leaf, fanout)) =>
        /\ ret["LeafAndSpine"].raised = "InvalidTopologySize"
        /\ topo = EmptyTopo
        /\ emitted = [mc |-> <<>>, uc |-> <<>>]
        /\ flows = <<>> /\ noflood = {}

\* the switches a run's requests failed for
FailedSwitches(reqs) ==
    {reqs[i].sw : i \in {j \in 1..Len(reqs) : Fails(topo, reqs[j], down)}}

\* the failures a call returned: None holds none
Reported(r) == IF r.value \in {"", "None"} THEN {} ELSE r.value

\* C6: a run of a synthesizer issues every request whether or not others
\* fail, and returns the switches its requests failed for: none in a run
\* with no failing request.
C6_FailuresReported ==
    /\ runs.mc # "never" =>
          /\ emitted.mc = McRequests(spine, leaf, fanout)
          /\ Reported(ret["configMulticast"]) = FailedSwitches(emitted.mc)
    /\ runs.uc # "never" =>
          /\ emitted.uc = UcRequests(spine, leaf, fanout)
          /\ Reported(ret["configUnicast"]) = FailedSwitches(emitted.uc)

\* C10: when config enters the CLI, and when it stops the network, both
\* synthesizers have run and the snapshot has been written.
C10_ConfiguredBeforeCLI ==
    (Valid(spine, leaf, fanout) /\ phase \in {"cli", "stopped"}) =>
        /\ runs.mc # "never"
        /\ runs.uc # "never"
        /\ snapshot # NoSnapshot
====
